---- MODULE Spec2Model ----
(***************************************************************************)
(* Model of proof-of-sql's Table (base/database/table.rs): an ordered map  *)
(* from Identifier to Column with a cached row count, its constructors,    *)
(* its read-only accessors and its order-sensitive equality.               *)
(*                                                                         *)
(* An IndexMap is modelled as the sequence of its entries in insertion     *)
(* order, keys pairwise distinct.  A Column is its variant tag and its     *)
(* backing sequence.                                                       *)
(***************************************************************************)
EXTENDS Integers, Sequences, FiniteSets, TLC

VARIABLES
    input,    \* what the caller handed to the constructor (pairs in order)
    mapping,  \* the IndexMap that try_new received
    tbl,      \* the live Table, as a sequence of length 0 or 1
    other,    \* a second Table, the right-hand side of ==
    out,      \* the value returned by the last call
    names     \* what column_names() yielded: on its first call, and on its
              \* latest call that came after some other call

vars == <<input, mapping, tbl, other, out, names>>

----------------------------------------------------------------------------
(* Bounds *)

MaxLen == 1
MaxCols == 3

Identifiers == {"a", "b", "c"}
ColumnTypes == {"BigInt", "VarChar"}
Values == {0}

SeqsUpTo(S, n) == UNION {[1..k -> S] : k \in 0..n}

Columns == {[ty |-> t, data |-> d] : t \in ColumnTypes, d \in SeqsUpTo(Values, MaxLen)}
Entries == {[id |-> k, col |-> c] : k \in Identifiers, c \in Columns}
PairSeqs == SeqsUpTo(Entries, MaxCols)

IsIndexMap(m) == \A i, j \in 1..Len(m) : i # j => m[i].id # m[j].id
IndexMaps ==
    LET n == IF MaxCols < Cardinality(Identifiers) THEN MaxCols ELSE Cardinality(Identifiers)
    IN {m \in SeqsUpTo(Entries, n) : IsIndexMap(m)}

----------------------------------------------------------------------------
(* Column and IndexMap operations used by Table *)

ColumnLen(column) == Len(column.data)

IndexMapLen(m) == Len(m)
IndexMapIsEmpty(m) == Len(m) = 0
IndexMapKeys(m) == [i \in 1..Len(m) |-> m[i].id]
IndexMapValues(m) == [i \in 1..Len(m) |-> m[i].col]

\* Option<&V>: the empty set is None, a singleton is Some(v)
IndexMapGet(m, k) == {m[i].col : i \in {j \in 1..Len(m) : m[j].id = k}}

\* insert keeps the position of a key already present and replaces its value
IndexMapInsert(m, k, v) ==
    IF \E i \in 1..Len(m) : m[i].id = k
    THEN [i \in 1..Len(m) |-> IF m[i].id = k THEN [id |-> k, col |-> v] ELSE m[i]]
    ELSE Append(m, [id |-> k, col |-> v])

RECURSIVE IndexMapExtend(_, _)
IndexMapExtend(m, iter) ==
    IF iter = <<>> THEN m
    ELSE IndexMapExtend(IndexMapInsert(m, Head(iter).id, Head(iter).col), Tail(iter))

IndexMapFromIter(iter) == IndexMapExtend(<<>>, iter)

\* IndexMap's own ==: same length and every entry of m1 found in m2, in any order
IndexMapEq(m1, m2) ==
    /\ Len(m1) = Len(m2)
    /\ \A i \in 1..Len(m1) : IndexMapGet(m2, m1[i].id) = {m1[i].col}

\* Iterator::zip(..).all(|(a, b)| a == b): stops at the shorter sequence
ZipAllEq(s1, s2) ==
    LET n == IF Len(s1) < Len(s2) THEN Len(s1) ELSE Len(s2)
    IN \A i \in 1..n : s1[i] = s2[i]

----------------------------------------------------------------------------
(* Table *)

ColumnLengthMismatch == "ColumnLengthMismatch"

Ok(t) == [tag |-> "Ok", t |-> t]
Err(e) == [tag |-> "Err", e |-> e]

\* the reference is taken from table.len() instead of table[0].len()
try_new_ref_map_len(table) ==
    IF IndexMapIsEmpty(table)
    THEN Ok([table |-> table, num_rows |-> 0])
    ELSE LET num_rows == IndexMapLen(table)
         IN IF \E i \in 1..Len(table) : ColumnLen(IndexMapValues(table)[i]) # num_rows
            THEN Err(ColumnLengthMismatch)
            ELSE Ok([table |-> table, num_rows |-> num_rows])

\* all() in place of any()
try_new_all(table) ==
    IF IndexMapIsEmpty(table)
    THEN Ok([table |-> table, num_rows |-> 0])
    ELSE LET num_rows == ColumnLen(table[1].col)
         IN IF \A i \in 1..Len(table) : ColumnLen(IndexMapValues(table)[i]) # num_rows
            THEN Err(ColumnLengthMismatch)
            ELSE Ok([table |-> table, num_rows |-> num_rows])

\* > in place of !=
try_new_longer_only(table) ==
    IF IndexMapIsEmpty(table)
    THEN Ok([table |-> table, num_rows |-> 0])
    ELSE LET num_rows == ColumnLen(table[1].col)
         IN IF \E i \in 1..Len(table) : ColumnLen(IndexMapValues(table)[i]) > num_rows
            THEN Err(ColumnLengthMismatch)
            ELSE Ok([table |-> table, num_rows |-> num_rows])

\* < in place of !=
try_new_shorter_only(table) ==
    IF IndexMapIsEmpty(table)
    THEN Ok([table |-> table, num_rows |-> 0])
    ELSE LET num_rows == ColumnLen(table[1].col)
         IN IF \E i \in 1..Len(table) : ColumnLen(IndexMapValues(table)[i]) < num_rows
            THEN Err(ColumnLengthMismatch)
            ELSE Ok([table |-> table, num_rows |-> num_rows])

try_new(table) ==
    IF IndexMapIsEmpty(table)
    THEN Ok([table |-> table, num_rows |-> 0])
    ELSE LET num_rows == ColumnLen(table[1].col)
         IN IF \E i \in 1..Len(table) : ColumnLen(IndexMapValues(table)[i]) # num_rows
            THEN Err(ColumnLengthMismatch)
            ELSE Ok([table |-> table, num_rows |-> num_rows])

\* the length check runs over the pairs as given, overwritten ones included
try_from_iter_checks_all_pairs(iter) ==
    IF \E i, j \in 1..Len(iter) : ColumnLen(iter[i].col) # ColumnLen(iter[j].col)
    THEN Err(ColumnLengthMismatch)
    ELSE try_new(IndexMapFromIter(iter))

try_from_iter(iter) == try_new(IndexMapFromIter(iter))

num_columns(self) == IndexMapLen(self.table)

num_rows(self) == self.num_rows

\* no rows in place of no columns
is_empty_no_rows(self) == self.num_rows = 0

is_empty(self) == IndexMapIsEmpty(self.table)

\* the entries come out last to first
into_inner_reversed(self) ==
    [i \in 1..Len(self.table) |-> self.table[Len(self.table) + 1 - i]]

into_inner(self) == self.table

inner_table(self) == self.table

\* the keys come out last to first
column_names_reversed(self) ==
    [i \in 1..Len(self.table) |-> IndexMapKeys(self.table)[Len(self.table) + 1 - i]]

column_names(self) == IndexMapKeys(self.table)

\* IndexMap's == alone, without the comparison of the key order
eq_unordered(self, rhs) == IndexMapEq(self.table, rhs.table)

eq(self, rhs) ==
    /\ IndexMapEq(self.table, rhs.table)
    /\ ZipAllEq(IndexMapKeys(self.table), IndexMapKeys(rhs.table))

----------------------------------------------------------------------------
(* The program: one table is constructed, read, and finally consumed *)

NoCall == [op |-> "none"]

Init ==
    /\ input = <<>>
    /\ mapping = <<>>
    /\ tbl = <<>>
    /\ other = <<>>
    /\ out = NoCall
    /\ names = <<>>

Live(r) == IF r.tag = "Ok" THEN <<r.t>> ELSE <<>>

CallTryNew ==
    /\ out = NoCall
    /\ \E table \in IndexMaps :
         /\ input' = table
         /\ mapping' = table
         /\ out' = [op |-> "try_new", val |-> try_new(table)]
         /\ tbl' = Live(try_new(table))
         /\ UNCHANGED <<other, names>>

CallTryFromIter ==
    /\ out = NoCall
    /\ \E iter \in PairSeqs :
         /\ input' = iter
         /\ mapping' = IndexMapFromIter(iter)
         /\ out' = [op |-> "try_from_iter", val |-> try_from_iter(iter)]
         /\ tbl' = Live(try_from_iter(iter))
         /\ UNCHANGED <<other, names>>

CallNumColumns ==
    /\ tbl # <<>>
    /\ out' = [op |-> "num_columns", val |-> num_columns(tbl[1])]
    /\ UNCHANGED <<input, mapping, tbl, other, names>>

CallNumRows ==
    /\ tbl # <<>>
    /\ out' = [op |-> "num_rows", val |-> num_rows(tbl[1])]
    /\ UNCHANGED <<input, mapping, tbl, other, names>>

CallIsEmpty ==
    /\ tbl # <<>>
    /\ out' = [op |-> "is_empty", val |-> is_empty(tbl[1])]
    /\ UNCHANGED <<input, mapping, tbl, other, names>>

CallInnerTable ==
    /\ tbl # <<>>
    /\ out' = [op |-> "inner_table", val |-> inner_table(tbl[1])]
    /\ UNCHANGED <<input, mapping, tbl, other, names>>

\* the keys are moved out of the map instead of borrowed
CallColumnNames_draining ==
    /\ tbl # <<>>
    /\ out' = [op |-> "column_names", val |-> column_names(tbl[1])]
    /\ names' = IF names = <<>> THEN <<column_names(tbl[1])>>
                ELSE IF out.op # "column_names" THEN <<names[1], column_names(tbl[1])>>
                ELSE names
    /\ tbl' = <<[table |-> <<>>, num_rows |-> tbl[1].num_rows]>>
    /\ UNCHANGED <<input, mapping, other>>

CallColumnNames ==
    /\ tbl # <<>>
    /\ out' = [op |-> "column_names", val |-> column_names(tbl[1])]
    /\ names' = IF names = <<>> THEN <<column_names(tbl[1])>>
                ELSE IF out.op # "column_names" THEN <<names[1], column_names(tbl[1])>>
                ELSE names
    /\ UNCHANGED <<input, mapping, tbl, other>>

\* self == a table freshly built from the mapping self was built from
CallEq ==
    /\ tbl # <<>>
    /\ try_new(mapping).tag = "Ok"
    /\ other' = <<try_new(mapping).t>>
    /\ out' = [op |-> "eq", val |-> eq(tbl[1], try_new(mapping).t)]
    /\ UNCHANGED <<input, mapping, tbl, names>>

\* into_inner takes self by value: the table is gone afterwards
CallIntoInner ==
    /\ tbl # <<>>
    /\ out' = [op |-> "into_inner", val |-> into_inner(tbl[1])]
    /\ tbl' = <<>>
    /\ UNCHANGED <<input, mapping, other, names>>

Next ==
    \/ CallTryNew
    \/ CallTryFromIter
    \/ CallNumColumns
    \/ CallNumRows
    \/ CallIsEmpty
    \/ CallInnerTable
    \/ CallColumnNames
    \/ CallEq
    \/ CallIntoInner

Spec == Init /\ [][Next]_vars

----------------------------------------------------------------------------
(* Properties of one table's life (Spec) *)

Constructors == {"try_new", "try_from_iter"}
Accessors == {"num_columns", "num_rows", "is_empty", "inner_table", "column_names", "eq"}

\* C1: a non-empty mapping whose columns all have the same length L (L = 0
\* included) is accepted by try_new, and the table reports num_rows() = L and
\* num_columns() = the number of entries of the mapping.
C1_UniformLengthsAccepted ==
    (/\ out.op \in Constructors
     /\ mapping # <<>>
     /\ \A i \in 1..Len(mapping) : ColumnLen(mapping[i].col) = ColumnLen(mapping[1].col))
    => /\ out.val.tag = "Ok"
       /\ num_rows(out.val.t) = ColumnLen(mapping[1].col)
       /\ num_columns(out.val.t) = Len(mapping)

C1_Witness ==
    /\ out.op = "try_new"
    /\ out.val.tag = "Ok"
    /\ Len(mapping) = 2
    /\ mapping[1] = [id |-> "a", col |-> [ty |-> "BigInt", data |-> <<0>>]]
    /\ mapping[2] = [id |-> "b", col |-> [ty |-> "VarChar", data |-> <<0>>]]

\* C2: a mapping holding two columns of different lengths is rejected with
\* ColumnLengthMismatch wherever the differing columns stand, and
\* ColumnLengthMismatch is the only error try_new ever returns.
C2_MismatchRejected ==
    /\ (/\ out.op \in Constructors
        /\ \E i, j \in 1..Len(mapping) : ColumnLen(mapping[i].col) # ColumnLen(mapping[j].col))
       => out.val = Err(ColumnLengthMismatch)
    /\ (out.op \in Constructors /\ out.val.tag = "Err") => out.val.e = ColumnLengthMismatch

C2_Witness ==
    /\ out.op = "try_new"
    /\ out.val.tag = "Err"
    /\ Len(mapping) = 3
    /\ ColumnLen(mapping[1].col) = ColumnLen(mapping[2].col)
    /\ ColumnLen(mapping[3].col) # ColumnLen(mapping[1].col)

\* C4: every table that exists has num_rows = 0 when it has no columns and
\* num_rows = the length of each of its columns otherwise, also after accessor
\* calls; a mapping whose columns disagree on length leaves no table behind.
C4_StructuralInvariant ==
    /\ \A t \in {tbl[i] : i \in 1..Len(tbl)} \cup {other[i] : i \in 1..Len(other)} :
         /\ t.table = <<>> => t.num_rows = 0
         /\ \A i \in 1..Len(t.table) : ColumnLen(t.table[i].col) = t.num_rows
    /\ (\E i, j \in 1..Len(mapping) : ColumnLen(mapping[i].col) # ColumnLen(mapping[j].col))
       => tbl = <<>>

C4_Witness ==
    /\ out.op = "num_rows"
    /\ tbl # <<>>
    /\ Len(tbl[1].table) = 3
    /\ out.val = 1
    /\ Len(names) = 2

\* C5: the empty mapping is accepted with num_rows() = 0, num_columns() = 0
\* and is_empty() = TRUE; is_empty() is TRUE exactly for a table of zero
\* columns, so columns of length 0 give num_rows() = 0 and is_empty() = FALSE.
C5_EmptyMeansNoColumns ==
    /\ (out.op \in Constructors /\ mapping = <<>>)
       => /\ out.val.tag = "Ok"
          /\ num_rows(out.val.t) = 0
          /\ num_columns(out.val.t) = 0
          /\ is_empty(out.val.t)
    /\ out.op = "is_empty" => (out.val <=> Len(mapping) = 0)
    /\ (/\ out.op = "is_empty"
        /\ Len(mapping) >= 1
        /\ \A i \in 1..Len(mapping) : ColumnLen(mapping[i].col) = 0)
       => (out.val = FALSE /\ num_rows(tbl[1]) = 0)

C5_Witness ==
    /\ out.op = "is_empty"
    /\ out.val = FALSE
    /\ Len(mapping) = 2
    /\ tbl # <<>>
    /\ num_rows(tbl[1]) = 0

\* C6: into_inner() of a table built from mapping M returns M itself: the same
\* identifiers with the same columns in the same order; inner_table() shows
\* that mapping too and the table is still there afterwards.
C6_RoundTrip ==
    /\ out.op = "into_inner"
       => /\ Len(out.val) = Len(mapping)
          /\ \A i \in 1..Len(mapping) :
               out.val[i].id = mapping[i].id /\ out.val[i].col = mapping[i].col
    /\ out.op = "inner_table" => (out.val = mapping /\ tbl # <<>>)

C6_Witness ==
    /\ out.op = "into_inner"
    /\ Len(out.val) = 3
    /\ out.val[1].id = "c"
    /\ out.val[2].id = "a"
    /\ out.val[1].col.ty # out.val[2].col.ty

\* C7: column_names() yields the identifiers of the mapping, each once, in
\* insertion order, num_columns() of them; a later call, with other accessor
\* calls in between, yields the same sequence again.
C7_ColumnNamesInOrder ==
    /\ out.op = "column_names"
       => /\ Len(out.val) = num_columns(tbl[1])
          /\ Len(out.val) = Len(mapping)
          /\ \A i \in 1..Len(mapping) : out.val[i] = mapping[i].id
          /\ \A i, j \in 1..Len(out.val) : i # j => out.val[i] # out.val[j]
          /\ out.val = names[Len(names)]
    /\ \A i \in 1..Len(names) : names[i] = names[1]

C7_Witness ==
    /\ out.op = "column_names"
    /\ Len(names) = 2
    /\ out.val = <<"b", "c", "a">>

\* C8: try_from_iter returns what try_new returns on the map that holds, for
\* each identifier in order of first appearance, the column of its last
\* appearance; columns that were overwritten play no part in the length check.
C8_FromIterLastWriteWins ==
    LET firsts == {i \in 1..Len(input) : \A j \in 1..(i - 1) : input[j].id # input[i].id}
        last(k) == CHOOSE i \in 1..Len(input) :
                      input[i].id = k /\ \A j \in (i + 1)..Len(input) : input[j].id # k
        nth(n) == CHOOSE i \in firsts : Cardinality({j \in firsts : j < i}) = n - 1
        lww == [n \in 1..Cardinality(firsts) |->
                   [id |-> input[nth(n)].id, col |-> input[last(input[nth(n)].id)].col]]
    IN out.op = "try_from_iter"
       => /\ out.val = try_new(lww)
          /\ mapping = lww
          /\ (\A m, n \in 1..Len(lww) : ColumnLen(lww[m].col) = ColumnLen(lww[n].col))
             => out.val.tag = "Ok"

C8_Witness ==
    /\ out.op = "try_from_iter"
    /\ out.val.tag = "Ok"
    /\ Len(input) = 3
    /\ input[1].id = "b"
    /\ input[2].id = "a"
    /\ input[3].id = "b"
    /\ ColumnLen(input[1].col) = 0
    /\ ColumnLen(input[2].col) = 1
    /\ ColumnLen(input[3].col) = 1
    /\ IndexMapKeys(out.val.t.table) = <<"b", "a">>

\* C9: an accessor call (num_columns, num_rows, is_empty, inner_table,
\* column_names, ==) returns a value and leaves the table as it was; the table
\* stays equal to one freshly built from its original mapping.
C9_AccessorsChangeNothing ==
    /\ [][out'.op \in Accessors => (tbl # <<>> /\ tbl' = tbl /\ mapping' = mapping)]_vars
    /\ [](tbl # <<>> =>
            /\ try_new(mapping).tag = "Ok"
            /\ eq(tbl[1], try_new(mapping).t)
            /\ tbl[1].table = mapping)
    /\ [](out.op = "eq" => out.val = TRUE)

C9_Witness ==
    /\ out.op = "eq"
    /\ out.val = TRUE
    /\ Len(names) = 2
    /\ tbl # <<>>
    /\ Len(tbl[1].table) = 2

\* C10: the outcome of try_new does not depend on the order of the columns:
\* every reordering of the mapping succeeds or fails as the mapping does,
\* with the same num_rows and num_columns, or with ColumnLengthMismatch.
C10_OrderIndependentOutcome ==
    out.op \in Constructors
    => \A p \in Permutations(1..Len(mapping)) :
         LET reordered == [i \in 1..Len(mapping) |-> mapping[p[i]]]
             r == try_new(reordered)
         IN /\ r.tag = out.val.tag
            /\ r.tag = "Ok" => /\ num_rows(r.t) = num_rows(out.val.t)
                               /\ num_columns(r.t) = num_columns(out.val.t)
            /\ r.tag = "Err" => (r.e = ColumnLengthMismatch /\ out.val.e = ColumnLengthMismatch)

C10_Witness ==
    /\ out.op = "try_new"
    /\ out.val.tag = "Err"
    /\ Len(mapping) = 3
    /\ ColumnLen(mapping[1].col) # ColumnLen(mapping[2].col)
    /\ ColumnLen(mapping[2].col) = ColumnLen(mapping[3].col)

----------------------------------------------------------------------------
(* Comparing two independently built tables *)

BuildOther ==
    /\ tbl # <<>>
    /\ other = <<>>
    /\ \E table \in IndexMaps :
         /\ other' = Live(try_new(table))
         /\ out' = [op |-> "try_new", val |-> try_new(table)]
         /\ UNCHANGED <<input, mapping, tbl, names>>

CompareTables ==
    /\ tbl # <<>>
    /\ other # <<>>
    /\ out' = [op |-> "eq", val |-> eq(tbl[1], other[1])]
    /\ UNCHANGED <<input, mapping, tbl, other, names>>

NextEq ==
    \/ CallTryNew
    \/ BuildOther
    \/ CompareTables

SpecEq == Init /\ [][NextEq]_vars

\* C3: two tables are equal exactly when they hold the same set of
\* (identifier, column) pairs and list their identifiers in the same order;
\* [A, B] differs from [B, A], and tables of different widths are never equal.
C3_OrderSensitiveEquality ==
    (out.op = "eq" /\ tbl # <<>> /\ other # <<>>)
    => LET l == tbl[1].table
           r == other[1].table
           pairs(m) == {<<m[i].id, m[i].col>> : i \in 1..Len(m)}
           order(m) == [i \in 1..Len(m) |-> m[i].id]
       IN /\ out.val <=> (pairs(l) = pairs(r) /\ order(l) = order(r))
          /\ Len(l) # Len(r) => out.val = FALSE
          /\ (Len(l) = 2 /\ Len(r) = 2 /\ r[1] = l[2] /\ r[2] = l[1]) => out.val = FALSE

C3_Witness ==
    /\ out.op = "eq"
    /\ out.val = FALSE
    /\ tbl # <<>>
    /\ other # <<>>
    /\ Len(tbl[1].table) = 2
    /\ Len(other[1].table) = 2
    /\ other[1].table[1] = tbl[1].table[2]
    /\ other[1].table[2] = tbl[1].table[1]

====
